---- MODULE Spec2Model ----
(***************************************************************************)
(* Model of the garmin-connect-client library: the HttpClient token        *)
(* lifecycle (request/response interceptors, single-flight refresh) and    *)
(* the authentication flow that constructs the client.                     *)
(*                                                                         *)
(* Scheduling: JavaScript, single-threaded.  Every action below is one     *)
(* event-loop turn: a caller issuing a request, or the arrival of one      *)
(* response together with every continuation (microtask) it releases.      *)
(***************************************************************************)
EXTENDS Integers, Sequences, FiniteSets, TLC

\* ---------------------------------------------------------------- bounds
NumCalls == 2
MaxExch == 2
MaxTime == 1
MaxExpiresIn == 1
MaxCookies == 5

Calls == 1..NumCalls
ExchIds == 1..MaxExch

\* --------------------------------------------------------------- values
\* absence of an Authorization header / of an OAuth2 token (undefined)
NoAuth == 0
NoToken ==
  [access_token |-> NoAuth, expires_in |-> 0, refresh_token_expires_in |-> 0,
   expires_at |-> 0, refresh_token_expires_at |-> 0]
NoOAuth1 == "none"
LoginOAuth1 == "oauth1"
\* the expires_in values (seconds) the exchange endpoint may return
ExpiresIn == 1..MaxExpiresIn
\* the JSON body of a 2xx answer of the exchange endpoint: a token that
\* carries no absolute timestamps yet; its refresh token lives twice as long
TokenResponse(access, e) ==
  [access_token |-> access, expires_in |-> e, refresh_token_expires_in |-> 2 * e,
   expires_at |-> 0, refresh_token_expires_at |-> 0]

\* What the server may answer: an HTTP status and, for the error body,
\* whether data.errorMessage is the "Authorization header is missing or
\* incomplete." marker.
Responses ==
  { [status |-> 200, marker |-> FALSE],
    [status |-> 400, marker |-> FALSE],
    [status |-> 400, marker |-> TRUE],
    [status |-> 401, marker |-> FALSE],
    [status |-> 403, marker |-> FALSE],
    [status |-> 500, marker |-> FALSE] }
ErrorResponses == { r \in Responses : r.status # 200 }

Ok == [kind |-> "ok", status |-> 200]
Pending == [kind |-> "pending", status |-> 0]
HttpError(status) == [kind |-> "HttpError", status |-> status]
NotAuthenticatedError == [kind |-> "NotAuthenticatedError", status |-> 0]
OAuthTokenError == [kind |-> "OAuthTokenError", status |-> 0]

VARIABLES
  pc,             \* lifecycle of the library use: "init", ..., "ready"
  now,            \* Math.floor(Date.now() / 1000)
  oauth1Token,    \* HttpClient.oauth1Token
  oauth2Token,    \* HttpClient.oauth2Token
  isRefreshing,   \* HttpClient.isRefreshing
  refreshPromise, \* HttpClient.refreshPromise: 0 = undefined, k = promise of refresh k
  calls,          \* the data calls issued through get/post/put/delete
  exch,           \* the exchange requests issued by refreshToken, by refresh number
  nExch,          \* number of requests sent to the OAuth exchange endpoint by refreshes
  handle,         \* the AuthContext createAuthContext resolved with
  mfaCode,        \* the mfaCode argument create() was called with
  authError,      \* the error the authentication flow rejected with
  authReqs,       \* the HTTP requests the authentication flow has issued, in order
  sentExpired,    \* recorded: some request left with a bearer token that had expired
  cookieJar,      \* HttpClient.cookieJar of the HttpClient in use
  authJars,       \* recorded: the jar each request of authReqs was sent with
  lastResponse,   \* recorded: the response the authentication flow received last
  golf            \* the getGolfRounds call in progress on the client, and its requests

client == <<oauth1Token, oauth2Token, isRefreshing, refreshPromise, calls, exch, nExch>>
flow == <<handle, mfaCode, authError, authReqs, cookieJar, authJars, lastResponse>>
vars == <<pc, now, oauth1Token, oauth2Token, isRefreshing, refreshPromise, calls, exch, nExch,
          handle, mfaCode, authError, authReqs, sentExpired, cookieJar, authJars,
          lastResponse, golf>>

\* ------------------------------------------------------- pure functions

\* variant: the refresh-token expiry is computed from the access token's life
setOauth2TokenExpiresAtOneLifetime(token, t) ==
  [token EXCEPT !.expires_at = t + token.expires_in,
                !.refresh_token_expires_at = t + token.expires_in]

\* oauth-utils: absolute expiry from the relative one, at the current second
setOauth2TokenExpiresAt(token, t) ==
  [token EXCEPT !.expires_at = t + token.expires_in,
                !.refresh_token_expires_at = t + token.refresh_token_expires_in]

\* variant: the bearer is attached only while the token has not expired
RequestInterceptorCheckingExpiry(configAuth, o2) ==
  IF o2 # NoToken /\ o2.expires_at > now THEN o2.access_token ELSE configAuth

\* request interceptor: the Authorization header a request leaves with
RequestInterceptor(configAuth, o2) ==
  IF o2 # NoToken THEN o2.access_token ELSE configAuth

\* variant: the one-shot _retry flag is not consulted
ShouldRefreshIgnoringRetry(status, retry, o2, o1) ==
  status = 401 /\ o2 # NoToken /\ o1 # NoOAuth1

\* variant: a 403 is treated like a 401
ShouldRefreshOn403Too(status, retry, o2, o1) ==
  status \in {401, 403} /\ ~retry /\ o2 # NoToken /\ o1 # NoOAuth1

\* variant: the tokens held are not consulted
ShouldRefreshWithoutTokenCheck(status, retry, o2, o1) ==
  status = 401 /\ ~retry

\* response interceptor, line 152: does this failure start the refresh path?
ShouldRefresh(status, retry, o2, o1) ==
  status = 401 /\ ~retry /\ o2 # NoToken /\ o1 # NoOAuth1

\* variant: 403 is not mapped
MapErrorWithout403(r) ==
  IF r.status = 400 /\ r.marker THEN NotAuthenticatedError
  ELSE HttpError(r.status)

\* variant: the 400 body marker is not mapped
MapErrorWithoutMarker(r) ==
  IF r.status = 403 THEN NotAuthenticatedError
  ELSE HttpError(r.status)

\* variant: the HttpError does not carry the status of the response
MapErrorLosingStatus(r) ==
  IF r.status = 403 THEN NotAuthenticatedError
  ELSE IF r.status = 400 /\ r.marker THEN NotAuthenticatedError
  ELSE HttpError(0)

\* response interceptor, lines 159-175: the error a failure is converted to
MapError(r) ==
  IF r.status = 403 THEN NotAuthenticatedError
  ELSE IF r.status = 400 /\ r.marker THEN NotAuthenticatedError
  ELSE HttpError(r.status)

\* variant: the in-flight promise is not shared
refreshTokenNoShare(o1, refreshing, promise) ==
  IF o1 = NoOAuth1 THEN "throw"
  ELSE "start"

\* refreshToken, lines 231-237: throw, share the in-flight promise, or start
refreshToken(o1, refreshing, promise) ==
  IF o1 = NoOAuth1 THEN "throw"
  ELSE IF refreshing /\ promise # 0 THEN "join"
  ELSE "start"

\* ---------------------------------------------------------------- state
\* the access token of an OAuth2 token, if one is held
Bearer(token) == IF token # NoToken THEN token.access_token ELSE NoAuth
\* the token's absolute expiry has passed
Expired(token) == token # NoToken /\ token.expires_at <= now

\* A request and the promise its caller awaits.  Program state: st (idle,
\* sent = awaiting the response, wait = interceptor awaiting a refresh
\* promise, done), retry (originalRequest._retry), auth (the Authorization
\* header it was last sent with), promise (the refresh promise awaited),
\* outcome.  Recorded for the properties: held (the access token of the
\* OAuth2 token the client held when the request was last sent), sent
\* (number of transmissions), first (the first response received).
NoResp == [status |-> 0, marker |-> FALSE]
IdleCall ==
  [st |-> "idle", retry |-> FALSE, auth |-> NoAuth, held |-> NoAuth,
   promise |-> 0, sent |-> 0, first |-> NoResp, outcome |-> Pending]
\* the exchange request of a refresh; token is the access token the refresh
\* resolved its promise with (return newToken.access_token)
NoExch ==
  [st |-> "none", retry |-> FALSE, auth |-> NoAuth, held |-> NoAuth,
   promise |-> 0, sent |-> 0, token |-> NoAuth, outcome |-> Pending]

\* the cookie jar, a set of cookies, each named by a number
RECURSIVE getCookies(_)
\* HttpClient.getCookies: the jar serialised, cookies in the order of the store
getCookies(jar) ==
  IF jar = {} THEN <<>>
  ELSE LET first == CHOOSE c \in jar : \A d \in jar : c <= d IN
       <<first>> \o getCookies(jar \ {first})

\* variant: the serialised cookies are not restored
createCookieJarFromJsonEmpty(json) == {}

\* HttpClient.createCookieJarFromJson: CookieJar.fromJSON
createCookieJarFromJson(json) == { json[i] : i \in DOMAIN json }

\* an optional argument: absent (undefined), or the value given
None == <<>>
Some(x) == <<x>>

\* variant: the cookies argument is not consulted
HttpClientJarContextOnly(authContext, cookies) ==
  IF authContext # None THEN createCookieJarFromJson(authContext[1].cookies)
  ELSE {}

\* HttpClient constructor: the jar of new HttpClient(urls, authContext, cookies)
HttpClientJar(authContext, cookies) ==
  IF authContext # None THEN createCookieJarFromJson(authContext[1].cookies)
  ELSE IF cookies # None THEN createCookieJarFromJson(cookies[1])
  ELSE {}

\* HttpClient.setCookies: the jar is replaced by the one the string restores
setCookies(cookies) == createCookieJarFromJson(cookies)

\* new AuthContext(mfaRequired, cookies, mfaMethod, ticket, oauth1Token,
\* oauth2Token); "" stands for an undefined ticket, "none" for an undefined
\* MFA method
AuthContext(mfaRequired, cookies, mfaMethod, ticket, o1, o2) ==
  [mfaRequired |-> mfaRequired, cookies |-> cookies, mfaMethod |-> mfaMethod,
   ticket |-> ticket, oauth1Token |-> o1, oauth2Token |-> o2]
\* AuthContext.getOAuthTokens: both tokens, or undefined
getOAuthTokens(context) ==
  IF context.oauth1Token # NoOAuth1 /\ context.oauth2Token # NoToken
  THEN [oauth1Token |-> context.oauth1Token, oauth2Token |-> context.oauth2Token]
  ELSE [oauth1Token |-> NoOAuth1, oauth2Token |-> NoToken]
\* no AuthContext constructed yet
NoHandle == AuthContext(FALSE, <<>>, "none", "", NoOAuth1, NoToken)
\* the optional mfaCode parameter: absent (undefined) or a string
NotCalled == [given |-> FALSE, chars |-> <<"-">>]
Undefined == [given |-> FALSE, chars |-> <<>>]
Str(chars) == [given |-> TRUE, chars |-> chars]

\* the responses of the SSO host to the login POST and the MFA-verify POST:
\* HTTP status, responseStatus.type, serviceTicketId, mfaLastMethodUsed
\* ("absent" when customerMfaInfo carries none)
BodyTypes == {"none", "MFA_REQUIRED", "INVALID_USERNAME_PASSWORD", "MFA_CODE_INVALID", "SESSION_EXPIRED"}
Tickets == {"", "ST-1"}
MethodStrings == {"absent", "", "email", "SMS", "Phone", "totp"}
SsoStatuses == {200, 400, 401, 403, 409, 500}
SsoResponse(status, type, ticket, method) ==
  [status |-> status, marker |-> FALSE, type |-> type, ticket |-> ticket, method |-> method]
\* a response whose body is not a login response
Plain(r) ==
  [status |-> r.status, marker |-> r.marker, type |-> "none", ticket |-> "", method |-> "absent"]
\* no response received yet
NoSsoResponse == Plain(NoResp)

\* ----------------------------------------------------------- golf data
MaxActivities == 2
ScorecardIds == {1, 2}
StartTime == "2024-05-01T10:00:00.000Z"
\* the parsed GolfActivitiesPage of a list response
GolfActivitiesPage(pageNumber, rowsPerPage, hasNextPage, scorecardActivities) ==
  [pageNumber |-> pageNumber, rowsPerPage |-> rowsPerPage, hasNextPage |-> hasNextPage,
   scorecardActivities |-> scorecardActivities]
NoPage == GolfActivitiesPage(0, 0, FALSE, <<>>)
\* GolfRoundsPage, the value getGolfRounds resolves with
NoRoundsPage == [pageNumber |-> 0, rowsPerPage |-> 0, hasNextPage |-> FALSE, rounds |-> <<>>]
\* a detail call: sent, answered (ok) with a scorecard, or failed
SentDetail == [st |-> "sent", scorecardId |-> 0, startTime |-> ""]
\* no getGolfRounds call made; st is idle, list (awaiting the activities
\* page), details (awaiting Promise.all), resolved or rejected; requests are
\* the GETs issued, in order; answers the detail call of each activity
NoGolf ==
  [st |-> "idle", page |-> 0, list |-> NoPage, requests |-> <<>>, answers |-> <<>>,
   result |-> NoRoundsPage]

Init ==
  /\ pc = "init"
  /\ now = 0
  /\ oauth1Token = NoOAuth1
  /\ oauth2Token = NoToken
  /\ isRefreshing = FALSE
  /\ refreshPromise = 0
  /\ calls = [c \in Calls |-> IdleCall]
  /\ exch = [k \in ExchIds |-> NoExch]
  /\ nExch = 0
  /\ handle = NoHandle
  /\ mfaCode = NotCalled
  /\ authError = "none"
  /\ authReqs = <<>>
  /\ sentExpired = FALSE
  /\ cookieJar = {}
  /\ authJars = <<>>
  /\ lastResponse = NoSsoResponse
  /\ golf = NoGolf

\* GarminConnectClientImpl.createUnauthenticated: new HttpClient(urls)
CreateUnauthenticated ==
  /\ pc = "init"
  /\ pc' = "ready"
  /\ cookieJar' = {}
  /\ UNCHANGED <<golf, now, client, handle, mfaCode, authError, authReqs, authJars, lastResponse,
                 sentExpired>>

\* ------------------------------------------------- authentication flow

\* String.prototype.trim on a sequence of characters
RECURSIVE TrimLeft(_)
TrimLeft(cs) ==
  IF cs # <<>> /\ Head(cs) = " " THEN TrimLeft(Tail(cs)) ELSE cs
RECURSIVE TrimRight(_)
TrimRight(cs) ==
  IF cs # <<>> /\ cs[Len(cs)] = " " THEN TrimRight(SubSeq(cs, 1, Len(cs) - 1)) ELSE cs
\* variant: the code is not trimmed
TrimNone(cs) == cs
Trim(cs) == TrimRight(TrimLeft(cs))

\* JavaScript truthiness of an optional string
Truthy(code) == code.given /\ code.chars # <<>>

\* String.prototype.toLowerCase on the method names the vendor may send
ToLowerCase(m) ==
  CASE m = "EMAIL" -> "email"
    [] m = "SMS" -> "sms"
    [] m = "Phone" -> "phone"
    [] OTHER -> m

\* variant: the method name is compared as sent
parseMfaMethodCaseSensitive(method) ==
  IF method = "email" THEN "email"
  ELSE IF method = "sms" THEN "sms"
  ELSE IF method = "phone" THEN "phone"
  ELSE "email"

\* auth-context.ts parseMfaMethod
parseMfaMethod(method) ==
  LET normalized == ToLowerCase(method) IN
  IF normalized = "email" THEN "email"
  ELSE IF normalized = "sms" THEN "sms"
  ELSE IF normalized = "phone" THEN "phone"
  ELSE "email"

\* extractInvalidCredentialsError applied to the error the interceptor threw
\* for response r: the InvalidCredentialsError, or the error itself
extractInvalidCredentialsError(r) ==
  LET error == MapError(r) IN
  IF error.kind = "HttpError" /\ r.type = "INVALID_USERNAME_PASSWORD" THEN "InvalidCredentialsError"
  ELSE IF error.kind = "HttpError" /\ error.status \in {401, 403} THEN "InvalidCredentialsError"
  ELSE error.kind

\* extractMfaCodeInvalidError applied to the error the interceptor threw
extractMfaCodeInvalidError(r) ==
  LET error == MapError(r) IN
  IF error.kind = "HttpError" /\ r.type = "SESSION_EXPIRED" THEN "MfaCodeInvalidError"
  ELSE IF error.kind = "HttpError" /\ error.status \in {401, 403} THEN "MfaCodeInvalidError"
  ELSE IF error.kind = "HttpError" /\ error.status = 409 THEN "MfaCodeInvalidError"
  ELSE error.kind

\* LoginTicketResult, and the error getLoginTicket throws instead
LoginTicketResult(type, ticket, mfaMethod, error) ==
  [type |-> type, ticket |-> ticket, mfaMethod |-> mfaMethod, error |-> error]

\* variant: the MFA challenge is looked at before the ticket
getLoginTicketMfaFirst(r) ==
  IF r.status # 200
  THEN LoginTicketResult("error", "", "none", extractInvalidCredentialsError(r))
  ELSE IF r.type = "MFA_REQUIRED"
  THEN LoginTicketResult("mfa_required", "",
         parseMfaMethod(IF r.method \in {"absent", ""} THEN "email" ELSE r.method), "none")
  ELSE IF r.ticket # ""
  THEN LoginTicketResult("success", r.ticket, "none", "none")
  ELSE LoginTicketResult("error", "", "none", "InvalidCredentialsError")

\* getLoginTicket, from the login POST's response r on: the result selection
getLoginTicket(r) ==
  IF r.status # 200
  THEN LoginTicketResult("error", "", "none", extractInvalidCredentialsError(r))
  ELSE IF r.ticket # ""
  THEN LoginTicketResult("success", r.ticket, "none", "none")
  ELSE IF r.type = "MFA_REQUIRED"
  THEN LoginTicketResult("mfa_required", "",
         parseMfaMethod(IF r.method \in {"absent", ""} THEN "email" ELSE r.method), "none")
  ELSE LoginTicketResult("error", "", "none", "InvalidCredentialsError")

\* variant: the success handle is built without the ticket
createAuthContextDroppingTicket(result, cookies) ==
  IF result.type = "success"
  THEN AuthContext(FALSE, cookies, "none", "", NoOAuth1, NoToken)
  ELSE AuthContext(TRUE, cookies, result.mfaMethod, "", NoOAuth1, NoToken)

\* startAuthentication's AuthenticationSuccess | MfaRequiredResult and the
\* AuthContext createAuthContext wraps it in
createAuthContext(result, cookies) ==
  IF result.type = "success"
  THEN AuthContext(FALSE, cookies, "none", result.ticket, NoOAuth1, NoToken)
  ELSE AuthContext(TRUE, cookies, result.mfaMethod, "", NoOAuth1, NoToken)

\* the cookies the hosts set in their answer to a request of the flow
SetCookie(request) ==
  CASE request = "signin" -> {1}
    [] request = "login" -> {2}
    [] request = "mfa" -> {3}
    [] request = "preauthorized" -> {4}
    [] request = "exchange" -> {5}

\* the flow rejects with error kind e
Fail(e) ==
  /\ pc' = "failed"
  /\ authError' = e

\* this.client.get/post of the flow's HttpClient: the request is logged with
\* the jar it is sent with
Send(request, jar) ==
  /\ authReqs' = Append(authReqs, request)
  /\ authJars' = Append(authJars, jar)

\* the response to a request of the flow arrives: its cookies enter the jar
Receive(request, r) ==
  /\ cookieJar' = cookieJar \cup SetCookie(request)
  /\ lastResponse' = r

\* createAuthContext -> startAuthentication -> getLoginTicket: a fresh
\* HttpClient sends the sign-in-page GET
StartAuthentication ==
  /\ pc = "init"
  /\ pc' = "signin"
  /\ cookieJar' = {}
  /\ Send("signin", {})
  /\ UNCHANGED <<golf, now, client, handle, mfaCode, authError, lastResponse, sentExpired>>

\* variant: the login POST is sent whatever the sign-in page answered
SignInRespondIgnoringFailure(r) ==
  /\ pc = "signin"
  /\ Receive("signin", r)
  /\ pc' = "login"
  /\ Send("login", cookieJar')
  /\ UNCHANGED <<golf, now, client, handle, mfaCode, authError, sentExpired>>

\* response to the sign-in-page GET; on success the login POST is sent
SignInRespond(r) ==
  /\ pc = "signin"
  /\ Receive("signin", r)
  /\ IF r.status = 200
     THEN /\ pc' = "login"
          /\ Send("login", cookieJar')
          /\ UNCHANGED authError
     ELSE /\ Fail(MapError(r).kind)
          /\ UNCHANGED <<authReqs, authJars>>
  /\ UNCHANGED <<golf, now, client, handle, mfaCode, sentExpired>>

\* response to the login POST: getLoginTicket's result selection, then
\* startAuthentication and createAuthContext wrap it into the AuthContext
LoginRespond(r) ==
  /\ pc = "login"
  /\ Receive("login", r)
  /\ LET result == getLoginTicket(r) IN
     IF result.type = "error"
     THEN /\ Fail(result.error)
          /\ UNCHANGED handle
     ELSE /\ handle' = createAuthContext(result, getCookies(cookieJar'))
          /\ pc' = "handle"
          /\ UNCHANGED authError
  /\ UNCHANGED <<golf, now, client, mfaCode, authReqs, authJars, sentExpired>>

\* the AuthenticationParameters create() passes to completeAuthentication
AuthenticationParameters(context, code) ==
  IF context.mfaRequired
  THEN [type |-> "mfa", ticket |-> "", mfaCode |-> code.chars, mfaMethod |-> context.mfaMethod]
  ELSE [type |-> "ticket", ticket |-> context.ticket, mfaCode |-> <<>>, mfaMethod |-> "none"]

\* GarminConnectClientImpl.create(context, urls, mfaCode), up to the first
\* request of completeAuthentication, which builds its HttpClient from the
\* cookies of the context
Create(code) ==
  /\ pc = "handle"
  /\ mfaCode' = code
  /\ LET cookies == handle.cookies
         parameters == AuthenticationParameters(handle, code) IN
     IF handle.mfaRequired
     THEN IF ~Truthy(code)
          THEN Fail("MfaCodeError") /\ UNCHANGED <<authReqs, authJars, cookieJar>>
          ELSE IF handle.mfaMethod = "none"
          THEN Fail("AuthenticationContextError") /\ UNCHANGED <<authReqs, authJars, cookieJar>>
          ELSE \* completeAuthentication, extractServiceTicketId (MFA case)
               /\ cookieJar' = createCookieJarFromJson(cookies)
               /\ IF Trim(parameters.mfaCode) = <<>>
                  THEN Fail("MfaCodeError") /\ UNCHANGED <<authReqs, authJars>>
                  ELSE /\ pc' = "mfa"
                       /\ Send("mfa", cookieJar')
                       /\ UNCHANGED authError
     ELSE IF handle.ticket = ""
          THEN Fail("AuthenticationContextError") /\ UNCHANGED <<authReqs, authJars, cookieJar>>
          ELSE \* completeOAuthFlow: getOauth1Token sends the preauthorized GET
               /\ cookieJar' = createCookieJarFromJson(cookies)
               /\ pc' = "oauth1"
               /\ Send("preauthorized", cookieJar')
               /\ UNCHANGED authError
  /\ UNCHANGED <<golf, now, client, handle, lastResponse, sentExpired>>

\* variant: the second client takes over the jar of the live one
CreateAgainSharingJar(code) ==
  /\ pc = "ready"
  /\ handle # NoHandle
  /\ mfaCode' = code
  /\ IF handle.mfaRequired /\ Trim(code.chars) = <<>>
     THEN Fail("MfaCodeError") /\ UNCHANGED <<authReqs, authJars>>
     ELSE /\ pc' = IF handle.mfaRequired THEN "mfa" ELSE "oauth1"
          /\ authReqs' = Append(SubSeq(authReqs, 1, 2),
                                IF handle.mfaRequired THEN "mfa" ELSE "preauthorized")
          /\ authJars' = Append(SubSeq(authJars, 1, 2), cookieJar)
          /\ UNCHANGED authError
  /\ UNCHANGED <<golf, now, client, handle, cookieJar, lastResponse, sentExpired>>

\* create(context, urls, mfaCode) called once more with the handle a live
\* client was built from: completeAuthentication builds a new HttpClient
\* from the cookies of the handle, with the initial values of its fields;
\* from here on the state is that of the new client and of its flow
CreateAgain(code) ==
  /\ pc = "ready"
  /\ handle # NoHandle
  /\ mfaCode' = code
  /\ LET jar == HttpClientJar(None, Some(handle.cookies))
         early == IF handle.mfaRequired
                  THEN IF ~Truthy(code) THEN "MfaCodeError"
                       ELSE IF handle.mfaMethod = "none" THEN "AuthenticationContextError"
                       ELSE "none"
                  ELSE IF handle.ticket = "" THEN "AuthenticationContextError" ELSE "none" IN
     IF early # "none"
     THEN /\ Fail(early)
          /\ UNCHANGED cookieJar
          /\ authReqs' = SubSeq(authReqs, 1, 2)
          /\ authJars' = SubSeq(authJars, 1, 2)
     ELSE IF handle.mfaRequired /\ Trim(code.chars) = <<>>
     THEN /\ Fail("MfaCodeError")
          /\ cookieJar' = jar
          /\ authReqs' = SubSeq(authReqs, 1, 2)
          /\ authJars' = SubSeq(authJars, 1, 2)
     ELSE /\ pc' = IF handle.mfaRequired THEN "mfa" ELSE "oauth1"
          /\ cookieJar' = jar
          /\ authReqs' = Append(SubSeq(authReqs, 1, 2),
                                IF handle.mfaRequired THEN "mfa" ELSE "preauthorized")
          /\ authJars' = Append(SubSeq(authJars, 1, 2), jar)
          /\ UNCHANGED authError
  /\ oauth1Token' = NoOAuth1
  /\ oauth2Token' = NoToken
  /\ isRefreshing' = FALSE
  /\ refreshPromise' = 0
  /\ calls' = [c \in Calls |-> IdleCall]
  /\ exch' = [k \in ExchIds |-> NoExch]
  /\ nExch' = 0
  /\ sentExpired' = FALSE
  /\ lastResponse' = NoSsoResponse
  /\ UNCHANGED <<golf, now, handle>>

\* variant: only the HTTP status decides
verifyMfaCodeStatusOnly(r) ==
  IF r.status = 200 THEN "ok" ELSE extractMfaCodeInvalidError(r)

\* verifyMfaCode, from the MFA-verify POST's response r on: "ok" (the parsed
\* response is returned) or the error thrown
verifyMfaCode(r) ==
  IF r.status = 200
  THEN IF r.type = "MFA_CODE_INVALID" THEN "MfaCodeInvalidError" ELSE "ok"
  ELSE extractMfaCodeInvalidError(r)

\* variant: the ticket of the response is not checked
extractServiceTicketIdUnchecked(r) == verifyMfaCode(r)

\* extractServiceTicketId (MFA case), from the response on: "ok" (the ticket
\* is returned) or the error thrown
extractServiceTicketId(r) ==
  LET mfaResult == verifyMfaCode(r) IN
  IF mfaResult # "ok" THEN mfaResult
  ELSE IF r.ticket = "" THEN "MfaCodeInvalidError"
  ELSE "ok"

\* response to the MFA-verify POST: verifyMfaCode, then the ticket check of
\* extractServiceTicketId, then getOauth1Token sends the preauthorized GET
MfaRespond(r) ==
  /\ pc = "mfa"
  /\ Receive("mfa", r)
  /\ LET e == extractServiceTicketId(r) IN
     IF e = "ok"
     THEN /\ pc' = "oauth1"
          /\ Send("preauthorized", cookieJar')
          /\ UNCHANGED authError
     ELSE Fail(e) /\ UNCHANGED <<authReqs, authJars>>
  /\ UNCHANGED <<golf, now, client, handle, mfaCode, sentExpired>>

\* variant: the exchange is attempted whatever the preauthorized GET answered
Oauth1RespondIgnoringFailure(r) ==
  /\ pc = "oauth1"
  /\ Receive("preauthorized", r)
  /\ pc' = "oauth2"
  /\ Send("exchange", cookieJar')
  /\ UNCHANGED <<golf, now, client, handle, mfaCode, authError, sentExpired>>

\* response to the preauthorized GET: the OAuth1 token is parsed and
\* AuthenticationService.exchange sends the exchange POST
Oauth1Respond(r) ==
  /\ pc = "oauth1"
  /\ Receive("preauthorized", r)
  /\ IF r.status = 200
     THEN /\ pc' = "oauth2"
          /\ Send("exchange", cookieJar')
          /\ UNCHANGED authError
     ELSE Fail(MapError(r).kind) /\ UNCHANGED <<authReqs, authJars>>
  /\ UNCHANGED <<golf, now, client, handle, mfaCode, sentExpired>>

\* variant: the fields of the parameters are carried into the context
newAuthenticatedContextKeepingParameters(parameters, updatedCookies, o1, o2) ==
  AuthContext(parameters.type = "mfa", updatedCookies, parameters.mfaMethod,
              parameters.ticket, o1, o2)

\* completeAuthentication: the fully authenticated AuthContext
newAuthenticatedContext(parameters, updatedCookies, o1, o2) ==
  AuthContext(FALSE, updatedCookies, "none", "", o1, o2)

\* completeAuthentication's local authenticatedContext, when the exchange
\* POST is answered 2xx with expires_in = e: the OAuth1 token parsed
\* before, the token of the answer stamped now, the cookies of the jar
authenticatedContext(e) ==
  newAuthenticatedContext(
    AuthenticationParameters(handle, mfaCode),
    getCookies(cookieJar \cup SetCookie("exchange")),
    LoginOAuth1, setOauth2TokenExpiresAt(TokenResponse(1, e), now))

\* response to the exchange POST: the token is stamped and
\* completeAuthentication returns new HttpClient(urls, authenticatedContext),
\* whose constructor takes the jar and the tokens from the context
Oauth2Respond(r, e) ==
  /\ pc = "oauth2"
  /\ lastResponse' = r
  /\ IF r.status = 200
     THEN LET context == authenticatedContext(e)
              tokens == getOAuthTokens(context) IN
          /\ pc' = "ready"
          /\ cookieJar' = createCookieJarFromJson(context.cookies)
          /\ oauth1Token' = tokens.oauth1Token
          /\ oauth2Token' = tokens.oauth2Token
          /\ UNCHANGED authError
     ELSE /\ Fail(MapError(r).kind)
          /\ cookieJar' = cookieJar \cup SetCookie("exchange")
          /\ UNCHANGED <<oauth1Token, oauth2Token>>
  /\ UNCHANGED <<golf, now, isRefreshing, refreshPromise, calls, exch, nExch, handle, mfaCode,
                 authReqs, authJars, sentExpired>>

\* the wall clock advances; the flow reads it only when it stamps a token,
\* so the seconds that pass during the flow are taken before it starts
Tick ==
  /\ pc \in {"init", "ready"}
  /\ now < MaxTime
  /\ now' = now + 1
  /\ UNCHANGED <<golf, pc, client, flow, sentExpired>>

\* HttpClient.get/post/put/delete: the request passes the request
\* interceptor and is transmitted
Request(c) ==
  /\ pc = "ready"
  /\ calls[c].st = "idle"
  /\ \A d \in Calls : d < c => calls[d].st # "idle"   \* calls are numbered in issue order
  /\ calls' = [calls EXCEPT ![c] =
        [@ EXCEPT !.st = "sent",
                  !.auth = RequestInterceptor(NoAuth, oauth2Token),
                  !.held = Bearer(oauth2Token),
                  !.sent = 1]]
  /\ sentExpired' = (sentExpired \/ Expired(oauth2Token))
  /\ UNCHANGED <<golf, pc, now, oauth1Token, oauth2Token, isRefreshing, refreshPromise, exch, nExch, flow>>

\* a 2xx response: response => response, the call resolves with the data
Respond2xx(c) ==
  /\ calls[c].st = "sent"
  /\ calls' = [calls EXCEPT ![c] =
        [@ EXCEPT !.st = "done",
                  !.first = IF @ = NoResp THEN [status |-> 200, marker |-> FALSE] ELSE @,
                  !.outcome = Ok]]
  /\ UNCHANGED <<golf, pc, now, oauth1Token, oauth2Token, isRefreshing, refreshPromise, exch, nExch, flow, sentExpired>>

\* the exchange request refreshToken sends when it starts refresh number k:
\* exchange() goes through this.post, hence through the request interceptor
NewExchange(o2) ==
  [NoExch EXCEPT !.st = "sent",
                 !.auth = RequestInterceptor(NoAuth, o2),
                 !.held = Bearer(o2),
                 !.sent = 1]

\* variant: a 401 for a request sent with a token that has been replaced
\* since is resubmitted with the token held, without a refresh
RespondErrorComparingTokens(c, r) ==
  /\ calls[c].st = "sent"
  /\ LET first == IF calls[c].first = NoResp THEN r ELSE calls[c].first IN
     IF ShouldRefresh(r.status, calls[c].retry, oauth2Token, oauth1Token)
     THEN IF calls[c].auth # Bearer(oauth2Token) /\ ~isRefreshing
          THEN /\ calls' = [calls EXCEPT ![c] =
                     [@ EXCEPT !.retry = TRUE, !.first = first,
                               !.auth = RequestInterceptor(NoAuth, oauth2Token),
                               !.held = Bearer(oauth2Token), !.sent = @ + 1]]
               /\ UNCHANGED <<isRefreshing, refreshPromise, exch, nExch, sentExpired>>
          ELSE IF isRefreshing
          THEN /\ calls' = [calls EXCEPT ![c] =
                     [@ EXCEPT !.st = "wait", !.retry = TRUE, !.first = first,
                               !.promise = refreshPromise]]
               /\ UNCHANGED <<isRefreshing, refreshPromise, exch, nExch, sentExpired>>
          ELSE /\ nExch < MaxExch
               /\ nExch' = nExch + 1
               /\ isRefreshing' = TRUE
               /\ refreshPromise' = nExch + 1
               /\ exch' = [exch EXCEPT ![nExch + 1] = NewExchange(oauth2Token)]
               /\ UNCHANGED sentExpired
               /\ calls' = [calls EXCEPT ![c] =
                     [@ EXCEPT !.st = "wait", !.retry = TRUE, !.first = first,
                               !.promise = nExch + 1]]
     ELSE /\ calls' = [calls EXCEPT ![c] =
                [@ EXCEPT !.st = "done", !.first = first, !.outcome = MapError(r)]]
          /\ UNCHANGED <<isRefreshing, refreshPromise, exch, nExch, sentExpired>>
  /\ UNCHANGED <<golf, pc, now, oauth1Token, oauth2Token, flow>>

\* a non-2xx response to data call c: the response interceptor's error handler
RespondError(c, r) ==
  /\ calls[c].st = "sent"
  /\ LET first == IF calls[c].first = NoResp THEN r ELSE calls[c].first IN
     IF ShouldRefresh(r.status, calls[c].retry, oauth2Token, oauth1Token)
     THEN \* originalRequest._retry = true; await this.refreshToken()
          LET d == refreshToken(oauth1Token, isRefreshing, refreshPromise) IN
          CASE d = "throw" ->
                 /\ calls' = [calls EXCEPT ![c] =
                       [@ EXCEPT !.st = "done", !.retry = TRUE, !.first = first,
                                 !.outcome = OAuthTokenError]]
                 /\ UNCHANGED <<isRefreshing, refreshPromise, exch, nExch, sentExpired>>
            [] d = "join" ->
                 /\ calls' = [calls EXCEPT ![c] =
                       [@ EXCEPT !.st = "wait", !.retry = TRUE, !.first = first,
                                 !.promise = refreshPromise]]
                 /\ UNCHANGED <<isRefreshing, refreshPromise, exch, nExch, sentExpired>>
            [] d = "start" ->
                 /\ nExch < MaxExch
                 /\ nExch' = nExch + 1
                 /\ isRefreshing' = TRUE
                 /\ refreshPromise' = nExch + 1
                 /\ exch' = [exch EXCEPT ![nExch + 1] = NewExchange(oauth2Token)]
                 /\ sentExpired' = (sentExpired \/ Expired(oauth2Token))
                 /\ calls' = [calls EXCEPT ![c] =
                       [@ EXCEPT !.st = "wait", !.retry = TRUE, !.first = first,
                                 !.promise = nExch + 1]]
     ELSE /\ calls' = [calls EXCEPT ![c] =
                [@ EXCEPT !.st = "done", !.first = first, !.outcome = MapError(r)]]
          /\ UNCHANGED <<isRefreshing, refreshPromise, exch, nExch, sentExpired>>
  /\ UNCHANGED <<golf, pc, now, oauth1Token, oauth2Token, flow>>

\* variant: the request is resubmitted with the header it already carried
ResubmitKeepingHeader(req, newAccess, o2) ==
  [req EXCEPT !.st = "sent",
              !.held = Bearer(o2),
              !.sent = @ + 1]

\* the requests whose interceptor awaits promise k resume with the new token:
\* originalRequest.headers.Authorization = Bearer newToken; this.client(originalRequest)
Resubmit(req, newAccess, o2) ==
  [req EXCEPT !.st = "sent",
              !.auth = RequestInterceptor(newAccess, o2),
              !.held = Bearer(o2),
              !.sent = @ + 1]

\* a 2xx response to the exchange request of refresh k: exchange() stamps
\* the token, the refresh stores it, the finally block clears the marker,
\* and every awaiting interceptor resubmits its request
ExchangeRespond2xx(k, e) ==
  /\ exch[k].st = "sent"
  /\ LET token == setOauth2TokenExpiresAt(TokenResponse(k + 1, e), now) IN
     /\ oauth2Token' = token
     /\ isRefreshing' = FALSE
     /\ refreshPromise' = 0
     /\ calls' = [c \in Calls |->
           IF calls[c].st = "wait" /\ calls[c].promise = k
           THEN Resubmit(calls[c], token.access_token, token)
           ELSE calls[c]]
     /\ exch' = [j \in ExchIds |->
           IF j = k THEN [exch[k] EXCEPT !.st = "done", !.token = token.access_token, !.outcome = Ok]
           ELSE IF exch[j].st = "wait" /\ exch[j].promise = k
           THEN Resubmit(exch[j], token.access_token, token)
           ELSE exch[j]]
     /\ sentExpired' = (sentExpired \/
           (Expired(token) /\ (\/ \E c \in Calls : calls[c].st = "wait" /\ calls[c].promise = k
                               \/ \E j \in ExchIds : exch[j].st = "wait" /\ exch[j].promise = k)))
  /\ UNCHANGED <<golf, pc, now, oauth1Token, nExch, flow>>

\* the refreshes that reject when promise set S rejects: an exchange request
\* whose interceptor awaits a rejected promise fails with it
RECURSIVE Rejected(_)
Rejected(S) ==
  LET S2 == S \cup { j \in ExchIds : exch[j].st = "wait" /\ exch[j].promise \in S } IN
  IF S2 = S THEN S ELSE Rejected(S2)

\* variant: the finally block clears the flag and keeps the promise
RejectRefreshKeepingPromise(k, err) ==
  LET R == Rejected({k}) IN
  /\ isRefreshing' = FALSE
  /\ UNCHANGED refreshPromise
  /\ calls' = [c \in Calls |->
        IF calls[c].st = "wait" /\ calls[c].promise \in R
        THEN [calls[c] EXCEPT !.st = "done", !.outcome = err]
        ELSE calls[c]]
  /\ exch' = [j \in ExchIds |->
        IF j \in R THEN [exch[j] EXCEPT !.st = "done", !.outcome = err]
        ELSE exch[j]]
  /\ UNCHANGED <<nExch, sentExpired>>

\* refresh k rejects with err: finally clears the marker, every awaiting
\* interceptor rethrows err to its caller
RejectRefresh(k, err) ==
  LET R == Rejected({k}) IN
  /\ isRefreshing' = FALSE
  /\ refreshPromise' = 0
  /\ calls' = [c \in Calls |->
        IF calls[c].st = "wait" /\ calls[c].promise \in R
        THEN [calls[c] EXCEPT !.st = "done", !.outcome = err]
        ELSE calls[c]]
  /\ exch' = [j \in ExchIds |->
        IF j \in R THEN [exch[j] EXCEPT !.st = "done", !.outcome = err]
        ELSE exch[j]]
  /\ UNCHANGED <<nExch, sentExpired>>

\* variant: a failed refresh drops the token held
ExchangeRespondErrorDroppingToken(k, r) ==
  /\ exch[k].st = "sent"
  /\ ~ShouldRefresh(r.status, exch[k].retry, oauth2Token, oauth1Token)
  /\ RejectRefresh(k, MapError(r))
  /\ oauth2Token' = NoToken
  /\ UNCHANGED <<golf, pc, now, oauth1Token, flow>>

\* a non-2xx response to the exchange request of refresh k: the same
\* response interceptor handles it
ExchangeRespondError(k, r) ==
  /\ exch[k].st = "sent"
  /\ IF ShouldRefresh(r.status, exch[k].retry, oauth2Token, oauth1Token)
     THEN LET d == refreshToken(oauth1Token, isRefreshing, refreshPromise) IN
          CASE d = "throw" -> RejectRefresh(k, OAuthTokenError)
            [] d = "join" ->
                 \* the exchange request awaits the in-flight refresh promise
                 /\ exch' = [exch EXCEPT ![k] =
                       [@ EXCEPT !.st = "wait", !.retry = TRUE, !.promise = refreshPromise]]
                 /\ UNCHANGED <<isRefreshing, refreshPromise, calls, nExch, sentExpired>>
            [] d = "start" ->
                 /\ nExch < MaxExch
                 /\ nExch' = nExch + 1
                 /\ isRefreshing' = TRUE
                 /\ refreshPromise' = nExch + 1
                 /\ exch' = [exch EXCEPT
                       ![k] = [@ EXCEPT !.st = "wait", !.retry = TRUE, !.promise = nExch + 1],
                       ![nExch + 1] = NewExchange(oauth2Token)]
                 /\ sentExpired' = (sentExpired \/ Expired(oauth2Token))
                 /\ UNCHANGED calls
     ELSE RejectRefresh(k, MapError(r))
  /\ UNCHANGED <<golf, pc, now, oauth1Token, oauth2Token, flow>>

\* ------------------------------------------------------------ golf rounds
rest == <<pc, now, client, flow, sentExpired>>

\* the GET of getGolfActivities / getGolfScorecardDetail, by its URL argument
GolfRequest(kind, arg) == [kind |-> kind, arg |-> arg]

\* variant: the round is identified by the scorecard of the detail response
GolfRoundFromDetail(activity, detail) ==
  [scorecardId |-> detail.scorecardId, startTime |-> detail.startTime]

\* the GolfRound the map callback returns for an activity and its detail
GolfRound(activity, detail) ==
  [scorecardId |-> activity.id, startTime |-> detail.startTime]

\* getGolfRounds' return value: the page fields of the activities page, and
\* the rounds Promise.all resolved with, in the order of the activities
GolfRoundsPage(activitiesPage, answers) ==
  [pageNumber |-> activitiesPage.pageNumber,
   rowsPerPage |-> activitiesPage.rowsPerPage,
   hasNextPage |-> activitiesPage.hasNextPage,
   rounds |-> [i \in 1..Len(activitiesPage.scorecardActivities) |->
                 GolfRound(activitiesPage.scorecardActivities[i], answers[i])]]

\* getGolfRounds(page, perPage, locale): getGolfActivities sends its GET
GetGolfRounds(page) ==
  /\ pc = "ready"
  /\ golf.st = "idle"
  /\ golf' = [golf EXCEPT !.st = "list", !.page = page,
                           !.requests = <<GolfRequest("activities", page)>>]
  /\ UNCHANGED rest

\* the activities GET is answered 2xx and parses to activitiesPage: the map
\* callback starts getGolfScorecardDetail for every scorecard activity, and
\* Promise.all of no promise resolves at once
GolfActivitiesRespond(activitiesPage) ==
  /\ golf.st = "list"
  /\ LET activities == activitiesPage.scorecardActivities
         answers == [i \in 1..Len(activities) |-> SentDetail] IN
     golf' = [golf EXCEPT
       !.list = activitiesPage,
       !.requests = @ \o [i \in 1..Len(activities) |-> GolfRequest("detail", activities[i].id)],
       !.answers = answers,
       !.st = IF activities = <<>> THEN "resolved" ELSE "details",
       !.result = IF activities = <<>> THEN GolfRoundsPage(activitiesPage, answers) ELSE @]
  /\ UNCHANGED rest

\* the activities GET fails, or its body does not parse: getGolfRounds rejects
GolfActivitiesFail ==
  /\ golf.st = "list"
  /\ golf' = [golf EXCEPT !.st = "rejected"]
  /\ UNCHANGED rest

\* the detail GET of activity i is answered 2xx with the scorecard details
\* detail (entries = number of scorecardDetails): scorecardDetails[0] of an
\* empty array is undefined and the call throws; otherwise the callback
\* returns its round, and Promise.all resolves when the last one has
GolfDetailRespond(i, detail) ==
  /\ golf.st \in {"details", "rejected"}
  /\ i \in DOMAIN golf.answers
  /\ golf.answers[i].st = "sent"
  /\ IF detail.entries = 0
     THEN golf' = [golf EXCEPT !.answers[i].st = "failed", !.st = "rejected"]
     ELSE LET answers == [golf.answers EXCEPT ![i] =
                [st |-> "ok", scorecardId |-> detail.scorecardId, startTime |-> detail.startTime]]
              all == \A j \in DOMAIN answers : answers[j].st = "ok" IN
          golf' = [golf EXCEPT
            !.answers = answers,
            !.st = IF @ = "details" /\ all THEN "resolved" ELSE @,
            !.result = IF golf.st = "details" /\ all
                       THEN GolfRoundsPage(golf.list, answers) ELSE @]
  /\ UNCHANGED rest

\* the detail GET of activity i fails, or its body does not parse:
\* Promise.all rejects with the first rejection
GolfDetailFail(i) ==
  /\ golf.st \in {"details", "rejected"}
  /\ i \in DOMAIN golf.answers
  /\ golf.answers[i].st = "sent"
  /\ golf' = [golf EXCEPT !.answers[i].st = "failed", !.st = "rejected"]
  /\ UNCHANGED rest

\* the inputs of the environment
MfaCodes == { Undefined, Str(<<>>), Str(<<" ">>), Str(<<" ", " ">>),
              Str(<<" ", "7", " ">>) }
\* a handle that needs no MFA is completed with create(context)
CodesFor(h) == IF h.mfaRequired THEN MfaCodes ELSE {Undefined}
LoginResponses ==
  { SsoResponse(200, t, k, m) : t \in {"none", "MFA_REQUIRED"}, k \in Tickets, m \in MethodStrings }
  \cup { SsoResponse(s, t, "", "absent") :
           s \in SsoStatuses \ {200}, t \in {"none", "INVALID_USERNAME_PASSWORD"} }
\* the login answers offered to the flow when the client it builds is
\* explored as well: one vendor method name stands for all of them
ClientLoginResponses == { r \in LoginResponses : r.method = "SMS" \/ r.status # 200 }
MfaResponses ==
  { SsoResponse(200, t, k, "absent") : t \in {"none", "MFA_CODE_INVALID"}, k \in Tickets }
  \cup { SsoResponse(s, t, "", "absent") :
           s \in SsoStatuses \ {200}, t \in {"none", "SESSION_EXPIRED"} }

Next ==
  \/ CreateUnauthenticated
  \/ StartAuthentication
  \/ \E r \in Responses : SignInRespond(Plain(r))
  \/ \E r \in ClientLoginResponses : LoginRespond(r)
  \/ \E code \in CodesFor(handle) : Create(code)
  \/ \E r \in MfaResponses : MfaRespond(r)
  \/ \E r \in Responses : Oauth1Respond(Plain(r))
  \/ \E r \in Responses, e \in ExpiresIn : Oauth2Respond(Plain(r), e)
  \/ Tick
  \/ \E c \in Calls : Request(c)
  \/ \E c \in Calls : Respond2xx(c)
  \/ \E c \in Calls, r \in ErrorResponses : RespondError(c, r)
  \/ \E k \in ExchIds, e \in ExpiresIn : ExchangeRespond2xx(k, e)
  \/ \E k \in ExchIds, r \in ErrorResponses : ExchangeRespondError(k, r)

Spec == Init /\ [][Next]_vars

\* the authentication flow alone: createAuthContext, then create, up to the
\* construction of the authenticated client
AuthNext ==
  \/ StartAuthentication
  \/ \E r \in Responses : SignInRespond(Plain(r))
  \/ \E r \in LoginResponses : LoginRespond(r)
  \/ \E code \in CodesFor(handle) : Create(code)
  \/ \E r \in MfaResponses : MfaRespond(r)
  \/ \E r \in Responses : Oauth1Respond(Plain(r))
  \/ \E r \in Responses, e \in ExpiresIn : Oauth2Respond(Plain(r), e)

AuthSpec == Init /\ [][AuthNext]_vars

\* the flow and the authenticated client it builds, with create() called
\* again on the handle of the live client; the clock stands still
ReuseNext ==
  \/ AuthNext
  \/ \E c \in Calls : Request(c)
  \/ \E c \in Calls : Respond2xx(c)
  \/ \E c \in Calls, r \in ErrorResponses : RespondError(c, r)
  \/ \E k \in ExchIds, e \in ExpiresIn : ExchangeRespond2xx(k, e)
  \/ \E k \in ExchIds, r \in ErrorResponses : ExchangeRespondError(k, r)
  \/ \E code \in CodesFor(handle) : CreateAgain(code)

ReuseSpec == Init /\ [][ReuseNext]_vars

\* the pages the golf-activities endpoint may answer with
RECURSIVE ActivityLists(_)
ActivityLists(n) ==
  IF n = 0 THEN {<<>>}
  ELSE ActivityLists(n - 1) \cup
       { Append(s, [id |-> d]) : s \in { x \in ActivityLists(n - 1) : Len(x) = n - 1 },
                                 d \in ScorecardIds }
GolfPages ==
  { GolfActivitiesPage(n, 20, h, s) : n \in {1, 2}, h \in BOOLEAN, s \in ActivityLists(MaxActivities) }
\* the bodies the scorecard-detail endpoint may answer with
GolfDetails ==
  { [entries |-> 1, scorecardId |-> d, startTime |-> StartTime] : d \in ScorecardIds }
  \cup { [entries |-> 0, scorecardId |-> 0, startTime |-> ""] }

\* getGolfRounds alone, on a client as createUnauthenticated returns it; each
\* GET stands for a call of the HttpClient and its outcome
GolfNext ==
  \/ CreateUnauthenticated
  \/ GetGolfRounds(1)
  \/ \E p \in GolfPages : GolfActivitiesRespond(p)
  \/ GolfActivitiesFail
  \/ \E i \in 1..MaxActivities, d \in GolfDetails : GolfDetailRespond(i, d)
  \/ \E i \in 1..MaxActivities : GolfDetailFail(i)

GolfSpec == Init /\ [][GolfNext]_vars

\* restoring a cookie snapshot: a client whose jar holds any of the cookies
CookieIds == 1..MaxCookies
JarInit ==
  /\ pc = "ready"
  /\ now = 0
  /\ oauth1Token = NoOAuth1
  /\ oauth2Token = NoToken
  /\ isRefreshing = FALSE
  /\ refreshPromise = 0
  /\ calls = [c \in Calls |-> IdleCall]
  /\ exch = [k \in ExchIds |-> NoExch]
  /\ nExch = 0
  /\ handle = NoHandle
  /\ mfaCode = NotCalled
  /\ authError = "none"
  /\ authReqs = <<>>
  /\ sentExpired = FALSE
  /\ cookieJar \in SUBSET CookieIds
  /\ authJars = <<>>
  /\ lastResponse = NoSsoResponse
  /\ golf = NoGolf

\* getCookies() is taken from the client (and kept, here in an AuthContext),
\* and the client sends its next request
TakeSnapshot ==
  /\ authReqs = <<>>
  /\ handle' = AuthContext(FALSE, getCookies(cookieJar), "none", "", NoOAuth1, NoToken)
  /\ Send("original", cookieJar)
  /\ UNCHANGED <<golf, pc, now, client, mfaCode, authError, sentExpired, cookieJar, lastResponse>>

\* the client in use becomes one restored from the snapshot, which sends
\* its next request
Restored(path, jar) ==
  /\ authReqs = <<"original">>
  /\ cookieJar' = jar
  /\ Send(path, jar)
  /\ UNCHANGED <<golf, pc, now, client, handle, mfaCode, authError, sentExpired, lastResponse>>

\* new HttpClient(urls, undefined, cookies)
RestoreByCookies == Restored("cookies", HttpClientJar(None, Some(handle.cookies)))
\* new HttpClient(urls, authContext)
RestoreByAuthContext == Restored("authContext", HttpClientJar(Some(handle), None))
\* new HttpClient(urls) followed by setCookies(cookies)
RestoreBySetCookies == Restored("setCookies", setCookies(handle.cookies))

CookieNext ==
  \/ TakeSnapshot
  \/ RestoreByCookies
  \/ RestoreByAuthContext
  \/ RestoreBySetCookies

CookieSpec == JarInit /\ [][CookieNext]_vars

\* ============================================================ properties

R401 == [status |-> 401, marker |-> FALSE]
BothTokens == oauth2Token # NoToken /\ oauth1Token # NoOAuth1

\* C1 (single-flight refresh): a 401 that arrives while a refresh is in
\* flight sends no request to the exchange endpoint and awaits the promise
\* of that refresh; when the exchange answers 2xx every call awaiting it is
\* resubmitted in the same turn, once, carrying the access token that
\* exchange returned; a call is never sent a second time with anything else.
C1_SingleFlight ==
  /\ [](\A c \in Calls : calls[c].sent >= 2 =>
          /\ calls[c].sent = 2
          /\ exch[calls[c].promise].outcome = Ok
          /\ calls[c].auth = exch[calls[c].promise].token)
  /\ [][\A c \in Calls :
          (isRefreshing /\ calls[c].st = "sent" /\ RespondError(c, R401) /\ ~calls[c].retry) =>
             /\ nExch' = nExch
             /\ calls'[c].st = "wait"
             /\ calls'[c].promise = refreshPromise]_vars
  /\ [][\A k \in ExchIds :
          (exch[k].st = "sent" /\ exch'[k].outcome = Ok) =>
             \A c \in Calls :
               (calls[c].st = "wait" /\ calls[c].promise = k) =>
                  /\ calls'[c].st = "sent"
                  /\ calls'[c].sent = calls[c].sent + 1
                  /\ calls'[c].auth = exch'[k].token]_vars

\* two calls shared one refresh: one exchange request, both resubmitted
\* with its token
C1_Witness ==
  /\ nExch = 1
  /\ exch[1].outcome = Ok
  /\ \A c \in {1, 2} :
       calls[c].sent = 2 /\ calls[c].promise = 1 /\ calls[c].auth = exch[1].token

\* C2 (retry-once bound): no call is transmitted more than twice; a 401
\* answer to a resubmitted call rejects it with the HTTP failure of that
\* response (status 401), starts no refresh and sends nothing.
C2_RetryOnce ==
  /\ [](\A c \in Calls : calls[c].sent <= 2)
  /\ [][\A c \in Calls :
          (calls[c].sent = 2 /\ RespondError(c, R401)) =>
             /\ calls'[c].st = "done"
             /\ calls'[c].outcome = HttpError(401)
             /\ calls'[c].sent = 2
             /\ nExch' = nExch
             /\ isRefreshing' = isRefreshing]_vars

\* a call answered 401, refreshed, resubmitted, answered 401 again
C2_Witness ==
  \E c \in Calls :
    /\ calls[c].first = R401
    /\ calls[c].sent = 2
    /\ exch[calls[c].promise].outcome = Ok
    /\ calls[c].st = "done"
    /\ calls[c].outcome = HttpError(401)

\* C3 (refresh failure propagates), as claimed: whenever the exchange
\* request of a refresh is answered non-2xx, every call awaiting that refresh
\* rejects in that turn with the failure of the exchange response and is not
\* resubmitted.
C3_RefreshFailurePropagates ==
  [][\A k \in ExchIds, r \in ErrorResponses :
       ExchangeRespondError(k, r) =>
         \A c \in Calls :
           (calls[c].st = "wait" /\ calls[c].promise = k) =>
              /\ calls'[c].st = "done"
              /\ calls'[c].outcome = MapError(r)
              /\ calls'[c].sent = calls[c].sent]_vars

\* C4 (refresh marker is always released), as claimed: once the server has
\* answered every exchange request it received, no refresh is in progress:
\* isRefreshing is false and refreshPromise is undefined.
C4_MarkerReleased ==
  (\A k \in ExchIds : exch[k].st # "sent") => (~isRefreshing /\ refreshPromise = 0)

\* C5 (refresh is reactive and narrowly triggered): a request goes to the
\* exchange endpoint only in the turn in which a not-yet-resubmitted call on
\* a client holding both tokens receives 401; a call is sent a second time
\* only if its first response was 401; a call whose first response is 2xx or
\* another 4xx/5xx is sent exactly once and is settled by that response, a
\* failure as a rejection.
C5_ReactiveRefresh ==
  /\ [](\A c \in Calls :
          /\ calls[c].sent >= 2 => (calls[c].first = R401 /\ calls[c].retry)
          /\ (calls[c].first # NoResp /\ calls[c].first.status # 401) =>
                /\ calls[c].sent = 1
                /\ calls[c].st = "done"
                /\ calls[c].promise = 0
                /\ (calls[c].outcome = Ok) <=> (calls[c].first.status = 200)
                /\ calls[c].outcome.kind \in {"ok", "HttpError", "NotAuthenticatedError"})
  /\ [](pc # "ready" => nExch = 0)
  /\ [][nExch' # nExch =>
          /\ BothTokens
          /\ \E c \in Calls :
               /\ calls[c].st = "sent" /\ calls[c].sent = 1 /\ ~calls[c].retry
               /\ calls'[c].first = R401 /\ calls'[c].st = "wait"]_vars

\* on a client with both tokens: one call rejected by a 500 after a single
\* transmission while another call went through refresh and resubmission
C5_Witness ==
  /\ BothTokens
  /\ \E c, d \in Calls :
       /\ calls[c].first.status = 500 /\ calls[c].sent = 1
       /\ calls[c].outcome = HttpError(500)
       /\ calls[d].first = R401 /\ calls[d].sent = 2

\* C6 (bearer attachment): every request transmitted -- data call,
\* resubmission, or the exchange request of a refresh -- carries the access
\* token of the OAuth2 token held when it was sent, whether or not that
\* token had expired, and carries no Authorization header when none was held.
C6_BearerAttached ==
  /\ \A c \in Calls : calls[c].sent >= 1 => calls[c].auth = calls[c].held
  /\ \A k \in ExchIds : exch[k].sent >= 1 => exch[k].auth = exch[k].held

\* a request sent with a token that had already expired, a resubmission
\* carrying the refreshed token, and an exchange request carrying the old one
C6_Witness ==
  /\ sentExpired
  /\ \E d \in Calls : calls[d].sent = 2 /\ calls[d].auth = oauth2Token.access_token
  /\ exch[1].sent = 1 /\ exch[1].auth = 1 /\ oauth2Token.access_token = 2

\* C7 (dead-session mapping): a 403 response, or a 400 response whose body
\* carries the authorization marker, rejects the call with
\* NotAuthenticatedError in that turn, with no refresh and no resubmission; a
\* 400 without the marker rejects with HttpError of status 400.
C7_DeadSession ==
  [][\A c \in Calls, r \in ErrorResponses :
       (r.status \in {400, 403} /\ RespondError(c, r)) =>
          /\ calls'[c].st = "done"
          /\ calls'[c].outcome =
               IF r.status = 403 \/ r.marker THEN NotAuthenticatedError ELSE HttpError(400)
          /\ calls'[c].sent = calls[c].sent
          /\ nExch' = nExch
          /\ isRefreshing' = isRefreshing]_vars

\* on an authenticated client: a 403 mapped to NotAuthenticatedError and a
\* marker-less 400 mapped to HttpError
C7_Witness ==
  /\ BothTokens
  /\ \E c, d \in Calls :
       /\ calls[c].first.status = 403 /\ calls[c].outcome = NotAuthenticatedError
       /\ calls[d].first = [status |-> 400, marker |-> FALSE]
       /\ calls[d].outcome = HttpError(400)

\* C8, as claimed: a call answered 401 on a client that holds no OAuth1
\* token rejects with OAuthTokenError and nothing is sent to the exchange
\* endpoint.
C8_NoRefreshTokenFailsFast ==
  \A c \in Calls :
    (oauth1Token = NoOAuth1 /\ calls[c].first = R401) =>
       (calls[c].st = "done" /\ calls[c].outcome = OAuthTokenError /\ nExch = 0)

\* C8, amended: a call answered 401 on a client that holds no OAuth1 token
\* rejects with HttpError of status 401 after its single transmission, and
\* nothing is sent to the exchange endpoint.
C8_NoRefreshTokenHttpError ==
  \A c \in Calls :
    (oauth1Token = NoOAuth1 /\ calls[c].first = R401) =>
       /\ calls[c].st = "done"
       /\ calls[c].outcome = HttpError(401)
       /\ calls[c].sent = 1
       /\ nExch = 0

C8_Witness ==
  /\ pc = "ready"
  /\ oauth1Token = NoOAuth1
  /\ \E c \in Calls : calls[c].first = R401 /\ calls[c].st = "done"

IsBlank(code) ==
  ~code.given \/ \A i \in 1..Len(code.chars) : code.chars[i] = " "

\* C10 (empty MFA code is rejected locally): create() on an MFA-required
\* handle with a missing, empty or whitespace-only code rejects with
\* MfaCodeError and issues no HTTP request: the requests issued remain the
\* two of startAuthentication.
C10_EmptyMfaCode ==
  (mfaCode # NotCalled /\ handle.mfaRequired /\ IsBlank(mfaCode)) =>
     /\ pc = "failed"
     /\ authError = "MfaCodeError"
     /\ authReqs = <<"signin", "login">>

\* create() was called with a whitespace-only code on an MFA-required handle
C10_Witness ==
  /\ handle.mfaRequired
  /\ mfaCode = Str(<<" ", " ">>)
  /\ authError = "MfaCodeError"

\* ------------------------------------------------- the session handle

\* the three lifecycle conditions of a session handle
TicketStage(h) == h.ticket # "" /\ ~h.mfaRequired
MfaStage(h) == h.mfaRequired /\ h.mfaMethod # "none"
TokenStage(h) == h.oauth1Token # NoOAuth1 /\ h.oauth2Token # NoToken
MfaMethods == {"email", "sms", "phone"}

\* mfaRequired holds exactly when no ticket is carried; a success carries a
\* ticket and no method, an MFA challenge a method and no ticket
Exclusive(h) ==
  /\ h.mfaRequired <=> (h.ticket = "")
  /\ ~h.mfaRequired => (h.ticket # "" /\ h.mfaMethod = "none")
  /\ h.mfaRequired => (h.mfaMethod \in MfaMethods /\ h.ticket = "")

\* C11 (ticket/MFA mutual exclusivity): the handle createAuthContext resolves
\* with has mfaRequired = true if and only if it carries no ticket: a success
\* carries a non-empty ticket, mfaRequired = false and no MFA method; an
\* MFA-required result carries an MFA method and no ticket.
C11_TicketMfaExclusive ==
  /\ [][(pc = "login" /\ pc' = "handle") => Exclusive(handle')]_vars
  /\ [](pc \in {"handle", "mfa", "oauth1", "oauth2"} => Exclusive(handle))

\* the login answered with a ticket and with MFA_REQUIRED at once: the handle
\* carries the ticket and asks for no MFA
C11_Witness ==
  /\ pc = "handle"
  /\ lastResponse.ticket # "" /\ lastResponse.type = "MFA_REQUIRED"
  /\ ~handle.mfaRequired /\ handle.ticket = lastResponse.ticket

\* exactly one lifecycle condition holds, and never MFA required with tokens
OneStage(h) ==
  /\ Cardinality({ i \in 1..3 : \/ i = 1 /\ TicketStage(h)
                                \/ i = 2 /\ MfaStage(h)
                                \/ i = 3 /\ TokenStage(h) }) = 1
  /\ ~(h.mfaRequired /\ (h.oauth1Token # NoOAuth1 \/ h.oauth2Token # NoToken))

\* C12 (session-handle invariant): every AuthContext the library constructs
\* -- the one createAuthContext resolves with and the authenticated one
\* completeAuthentication builds -- satisfies exactly one of {ticket present
\* and MFA not required}, {MFA required and method present}, {both tokens
\* present}, and never has mfaRequired together with tokens.
C12_HandleInvariant ==
  /\ [][handle' # handle => OneStage(handle')]_vars
  /\ [](handle # NoHandle => OneStage(handle) /\ ~TokenStage(handle))
  /\ [][\A r \in Responses, e \in ExpiresIn :
          (Oauth2Respond(Plain(r), e) /\ r.status = 200) =>
             /\ OneStage(authenticatedContext(e))
             /\ TokenStage(authenticatedContext(e))
             /\ oauth1Token' = authenticatedContext(e).oauth1Token
             /\ oauth2Token' = authenticatedContext(e).oauth2Token]_vars

\* the MFA branch completed: the handle is in the MFA stage, the client was
\* built from an authenticated context
C12_Witness ==
  /\ pc = "ready"
  /\ MfaStage(handle)
  /\ BothTokens

\* C13 (wrong credentials), as claimed: a login POST that fails with a body
\* of type INVALID_USERNAME_PASSWORD, or with status 401 or 403, rejects
\* createAuthContext with InvalidCredentialsError and resolves no handle.
C13_WrongCredentials ==
  [][\A r \in LoginResponses :
       (LoginRespond(r) /\ r.status # 200
          /\ (r.type = "INVALID_USERNAME_PASSWORD" \/ r.status \in {401, 403})) =>
          /\ pc' = "failed"
          /\ authError' = "InvalidCredentialsError"
          /\ handle' = NoHandle]_vars

\* the method the claim expects for a vendor string
ExpectedMfaMethod(m) ==
  CASE m \in {"email", "EMAIL"} -> "email"
    [] m \in {"sms", "SMS"} -> "sms"
    [] m \in {"phone", "Phone"} -> "phone"
    [] OTHER -> "email"

\* C14 (MFA method default): a login answered 200 with MFA_REQUIRED and no
\* ticket resolves a handle with mfaRequired = true whose method is the
\* vendor's mfaLastMethodUsed when that is email, sms or phone in any case,
\* and email when the field is absent, empty or anything else.
C14_MfaMethodDefault ==
  [][\A r \in LoginResponses :
       (LoginRespond(r) /\ r.status = 200 /\ r.ticket = "" /\ r.type = "MFA_REQUIRED") =>
          /\ pc' = "handle"
          /\ handle'.mfaRequired
          /\ handle'.mfaMethod = ExpectedMfaMethod(r.method)]_vars

\* the vendor named no method and the handle asks for the email method
C14_Witness ==
  /\ pc = "handle"
  /\ lastResponse.type = "MFA_REQUIRED" /\ lastResponse.method = "absent"
  /\ handle.mfaRequired /\ handle.mfaMethod = "email"

\* ------------------------------------------------------ MFA completion

\* the requests of startAuthentication followed by the MFA-verify POST
UpToMfa == <<"signin", "login", "mfa">>

\* C15 (embedded MFA failure): an MFA-verify answer of status 200 whose
\* responseStatus.type is MFA_CODE_INVALID rejects completeAuthentication with
\* MfaCodeInvalidError, also when the body carries a ticket, and no OAuth
\* request follows the MFA-verify POST.
C15_EmbeddedMfaFailure ==
  /\ [][\A r \in MfaResponses :
          (MfaRespond(r) /\ r.status = 200 /\ r.type = "MFA_CODE_INVALID") =>
             /\ pc' = "failed"
             /\ authError' = "MfaCodeInvalidError"
             /\ authReqs' = authReqs]_vars
  /\ []((lastResponse.status = 200 /\ lastResponse.type = "MFA_CODE_INVALID") =>
          /\ pc = "failed"
          /\ authReqs = UpToMfa
          /\ oauth1Token = NoOAuth1 /\ oauth2Token = NoToken)

\* the MFA-verify POST answered 200 with MFA_CODE_INVALID and a ticket
C15_Witness ==
  /\ lastResponse = SsoResponse(200, "MFA_CODE_INVALID", "ST-1", "absent")
  /\ authError = "MfaCodeInvalidError"
  /\ authReqs = UpToMfa

\* C16 (MFA status mapping), as claimed: an MFA-verify request that fails
\* with status 401, 403 or 409, or with a body of type SESSION_EXPIRED,
\* rejects completeAuthentication with MfaCodeInvalidError.
C16_MfaStatusMapping ==
  [][\A r \in MfaResponses :
       (MfaRespond(r) /\ r.status # 200
          /\ (r.status \in {401, 403, 409} \/ r.type = "SESSION_EXPIRED")) =>
          /\ pc' = "failed"
          /\ authError' = "MfaCodeInvalidError"]_vars

\* the MFA-verify endpoint accepted the code and returned no ticket
AcceptedWithoutTicket(r) ==
  r.status = 200 /\ r.type # "MFA_CODE_INVALID" /\ r.ticket = ""

\* C17, as claimed: when the MFA-verify endpoint accepts the code but returns
\* no ticket, completeAuthentication fails with a kind other than the one
\* raised for a rejected code (MfaCodeInvalidError, see C15).
C17_MissingTicketDistinct ==
  [][\A r \in MfaResponses :
       (MfaRespond(r) /\ AcceptedWithoutTicket(r)) =>
          /\ pc' = "failed"
          /\ authError' # "MfaCodeInvalidError"]_vars

\* C17, amended: when the MFA-verify endpoint accepts the code but returns no
\* ticket, completeAuthentication fails with MfaCodeInvalidError, the kind
\* also raised for a rejected code, and no OAuth request is issued.
C17_MissingTicketSameKind ==
  /\ [][\A r \in MfaResponses :
          (MfaRespond(r) /\ AcceptedWithoutTicket(r)) =>
             /\ pc' = "failed"
             /\ authError' = "MfaCodeInvalidError"
             /\ authReqs' = authReqs]_vars
  /\ []((authReqs = UpToMfa /\ pc # "mfa" /\ AcceptedWithoutTicket(lastResponse)) =>
          /\ pc = "failed"
          /\ authError = "MfaCodeInvalidError")

\* the MFA-verify POST answered 200 without status type and without ticket
C17_Witness ==
  /\ authReqs = UpToMfa
  /\ lastResponse = SsoResponse(200, "none", "", "absent")
  /\ pc = "failed"

\* ---------------------------------------------------------- OAuth flow

\* the requests the two branches of the flow issue, in order
TicketBranch == <<"signin", "login", "preauthorized", "exchange">>
MfaBranch == <<"signin", "login", "mfa", "preauthorized", "exchange">>
IsPrefix(s, t) == Len(s) <= Len(t) /\ s = SubSeq(t, 1, Len(s))

\* C18 (both exchange steps, in order): completeAuthentication issues the
\* preauthorized GET and then the exchange POST, once each, after the MFA
\* verify in the MFA branch and without it in the ticket branch; a client
\* exists only after both succeeded, holds both tokens and sends its requests
\* with the bearer; a failed step rejects and nothing further is issued.
C18_BothExchangeSteps ==
  /\ [](IsPrefix(authReqs, IF handle.mfaRequired THEN MfaBranch ELSE TicketBranch))
  /\ [](BothTokens =>
          /\ pc = "ready"
          /\ authReqs = (IF handle.mfaRequired THEN MfaBranch ELSE TicketBranch)
          /\ \A c \in Calls : calls[c].sent >= 1 => calls[c].auth # NoAuth)
  /\ []((pc # "ready") =>
          /\ oauth1Token = NoOAuth1 /\ oauth2Token = NoToken
          /\ \A c \in Calls : calls[c].st = "idle")
  /\ [][\A r \in ErrorResponses :
          (Oauth1Respond(Plain(r)) \/ \E e \in ExpiresIn : Oauth2Respond(Plain(r), e)) =>
             /\ pc' = "failed"
             /\ authReqs' = authReqs]_vars

\* the MFA branch completed and the client sent a request with the bearer
C18_Witness ==
  /\ pc = "ready"
  /\ handle.mfaRequired
  /\ authReqs = MfaBranch
  /\ \E c \in Calls : calls[c].sent = 1 /\ calls[c].auth = 1

\* the token the exchange endpoint's answer e is stamped to at the current
\* second
StampedNow(token, e) ==
  /\ token.expires_in = e
  /\ token.expires_at = now + e
  /\ token.refresh_token_expires_at = now + token.refresh_token_expires_in
  /\ token.refresh_token_expires_in = TokenResponse(0, e).refresh_token_expires_in

\* C19 (expiry stamping): the OAuth2 token obtained at second T with
\* expires_in = e and refresh_token_expires_in = r is stored with
\* expires_at = T + e and refresh_token_expires_at = T + r, at login and at
\* every refresh; a refresh at T' stamps relative to T', and leaves the token
\* of the login as it was stamped.
C19_ExpiryStamping ==
  /\ [][\A r \in Responses, e \in ExpiresIn :
          (Oauth2Respond(Plain(r), e) /\ r.status = 200) =>
             StampedNow(oauth2Token', e)]_vars
  /\ [][\A k \in ExchIds, e \in ExpiresIn :
          ExchangeRespond2xx(k, e) =>
             StampedNow(oauth2Token', e)]_vars
  /\ [][oauth2Token' # oauth2Token => \E e \in ExpiresIn : StampedNow(oauth2Token', e)]_vars

\* a refresh after the token of the login had expired: a request left with
\* the expired token, and the token of the refresh is stamped at the second
\* of the refresh
C19_Witness ==
  /\ sentExpired
  /\ exch[1].auth = 1
  /\ oauth2Token.access_token = 2
  /\ oauth2Token.expires_at = now + oauth2Token.expires_in
  /\ now > 0

\* the cookies the answers to the first n requests of the flow have set
RECURSIVE CookiesSetBy(_, _)
CookiesSetBy(reqs, n) ==
  IF n = 0 THEN {} ELSE CookiesSetBy(reqs, n - 1) \cup SetCookie(reqs[n])
\* the cookies a serialised jar names
CookiesIn(json) == { c \in 1..5 : \E i \in DOMAIN json : json[i] = c }

\* C20 (cookie continuity across the flow): every request of the flow is
\* sent with a jar holding the cookies set by the answers to all requests
\* before it -- the login POST with those of the sign-in page, the MFA-verify
\* and OAuth requests of completeAuthentication with those startAuthentication
\* accumulated; the handle carries the cookies of startAuthentication; the
\* authenticated client starts with the jar as it stood after the OAuth flow.
C20_CookieContinuity ==
  /\ [](Len(authJars) = Len(authReqs))
  /\ [](\A i \in DOMAIN authReqs : authJars[i] = CookiesSetBy(authReqs, i - 1))
  /\ [](handle # NoHandle => CookiesIn(handle.cookies) = CookiesSetBy(authReqs, 2))
  /\ [][(pc = "oauth2" /\ pc' = "ready") =>
          /\ cookieJar' = cookieJar \cup SetCookie("exchange")
          /\ cookieJar' = CookiesSetBy(authReqs, Len(authReqs))
          /\ \A e \in ExpiresIn : CookiesIn(authenticatedContext(e).cookies) = cookieJar']_vars

\* the MFA branch completed: the client's jar holds the cookies of all five
\* answers, the MFA-verify POST was sent with those of startAuthentication
C20_Witness ==
  /\ pc = "ready"
  /\ authReqs = MfaBranch
  /\ authJars[3] = SetCookie("signin") \cup SetCookie("login")
  /\ cookieJar = 1..5

\* ------------------------------------------------------ cookie snapshots

SettledByFailure(c) ==
  /\ calls[c].st = "done"
  /\ calls[c].first # NoResp
  /\ calls[c].first.status # 200
  /\ ~calls[c].retry

C24_GolfRounds ==
  LET activities == golf.list.scorecardActivities IN
  /\ golf.st = "list" => golf.requests = <<GolfRequest("activities", golf.page)>>
  /\ golf.st \in {"details", "resolved"} =>
        /\ Len(golf.requests) = 1 + Len(activities)
        /\ golf.requests[1] = GolfRequest("activities", golf.page)
        /\ \A i \in DOMAIN activities :
              golf.requests[1 + i] = GolfRequest("detail", activities[i].id)
  /\ golf.st = "resolved" =>
        /\ golf.result.pageNumber = golf.list.pageNumber
        /\ golf.result.rowsPerPage = golf.list.rowsPerPage
        /\ golf.result.hasNextPage = golf.list.hasNextPage
        /\ Len(golf.result.rounds) = Len(activities)
        /\ \A i \in DOMAIN activities :
              /\ golf.result.rounds[i].scorecardId = activities[i].id
              /\ golf.answers[i].st = "ok"
  /\ (\E i \in DOMAIN golf.answers : golf.answers[i].st = "failed") => golf.st = "rejected"
  /\ (golf.st # "idle" /\ golf.list = NoPage /\ golf.st # "list") => golf.st = "rejected"
  /\ golf.st # "resolved" => golf.result = NoRoundsPage

\* a page of two activities resolved to two rounds, though each detail
\* response named the other scorecard
C24_Witness ==
  /\ golf.st = "resolved"
  /\ golf.list.pageNumber = 2
  /\ Len(golf.result.rounds) = 2
  /\ golf.result.rounds[1].scorecardId = 2 /\ golf.answers[1].scorecardId = 1
  /\ golf.result.rounds[2].scorecardId = 1 /\ golf.answers[2].scorecardId = 2

\* --------------------------------------------------------------- login

\* C25 (login outcome selection): after a 2xx login response, a non-empty
\* serviceTicketId gives the success outcome with that ticket even when the
\* type is MFA_REQUIRED; otherwise MFA_REQUIRED gives the MFA-required
\* outcome; otherwise startAuthentication rejects with
\* InvalidCredentialsError.  Exactly one of the three happens.
C25_LoginOutcome ==
  [][\A r \in LoginResponses :
       (LoginRespond(r) /\ r.status = 200) =>
          IF r.ticket # ""
          THEN pc' = "handle" /\ TicketStage(handle') /\ handle'.ticket = r.ticket
               /\ authError' = "none"
          ELSE IF r.type = "MFA_REQUIRED"
          THEN pc' = "handle" /\ MfaStage(handle') /\ handle'.ticket = ""
               /\ authError' = "none"
          ELSE pc' = "failed" /\ authError' = "InvalidCredentialsError"
               /\ handle' = NoHandle]_vars

\* a 2xx login answer carrying both a ticket and MFA_REQUIRED with a method
C25_Witness ==
  /\ pc = "handle"
  /\ lastResponse = SsoResponse(200, "MFA_REQUIRED", "ST-1", "SMS")
  /\ TicketStage(handle)

\* C26 (login step ordering): startAuthentication uses a fresh transport
\* holding no cookies and no tokens, sends the sign-in-page GET first and the
\* login POST only after that GET succeeded; if the GET fails no login POST
\* is sent.
C26_LoginStepOrdering ==
  /\ [][pc = "init" /\ pc' = "signin" =>
          /\ cookieJar' = {} /\ oauth1Token' = NoOAuth1 /\ oauth2Token' = NoToken
          /\ authReqs' = <<"signin">> /\ authJars' = <<{}>>]_vars
  /\ [](pc \in {"signin", "login"} => (oauth1Token = NoOAuth1 /\ oauth2Token = NoToken))
  /\ [](\A i \in DOMAIN authReqs :
          /\ authReqs[i] = "signin" <=> i = 1
          /\ authReqs[i] = "login" <=> i = 2)
  /\ [][\A r \in Responses :
          SignInRespond(Plain(r)) =>
             IF r.status = 200
             THEN authReqs' = <<"signin", "login">>
             ELSE authReqs' = <<"signin">> /\ pc' = "failed"]_vars
  /\ [](Len(authReqs) >= 2 => pc \notin {"init", "signin"})

\* the sign-in page answered 500: the flow failed with one request issued
C26_Witness ==
  /\ pc = "failed"
  /\ authReqs = <<"signin">>
  /\ lastResponse.status = 500

\* ------------------------------------------------------------- refresh

\* C27 (token replacement on refresh): after a successful refresh the token
\* held is exactly the token that exchange returned, stamped, with no field
\* of the previous one; each request resubmitted carries the access token
\* held after the refresh, never the one that was answered 401.
C27_TokenReplacement ==
  /\ [][\A k \in ExchIds, e \in ExpiresIn :
          ExchangeRespond2xx(k, e) =>
             /\ oauth2Token' = setOauth2TokenExpiresAt(TokenResponse(exch'[k].token, e), now)
             /\ oauth2Token'.access_token # oauth2Token.access_token]_vars
  /\ [][\A c \in Calls :
          calls'[c].sent > calls[c].sent /\ calls[c].sent >= 1 =>
             /\ calls'[c].auth = oauth2Token'.access_token
             /\ calls'[c].auth # calls[c].auth
             /\ oauth2Token' # oauth2Token]_vars

\* two refreshes succeeded: the token held is the third, and a call answered
\* 401 under the second token was resubmitted with it
C27_Witness ==
  /\ exch[1].outcome = Ok /\ exch[2].outcome = Ok
  /\ oauth2Token.access_token = 3
  /\ \E c \in Calls : calls[c].sent = 2 /\ calls[c].promise = 2 /\ calls[c].auth = 3

\* C28 (refresh-marker invariant): in every state between two turns,
\* isRefreshing is true exactly when refreshPromise is defined, and at most
\* one request to the exchange endpoint is in flight.
C28_RefreshMarker ==
  /\ isRefreshing <=> (refreshPromise # 0)
  /\ Cardinality({ k \in ExchIds : exch[k].st = "sent" }) <= 1
  /\ \A k \in ExchIds : exch[k].st = "sent" => (isRefreshing /\ refreshPromise = k)

\* a second refresh in flight after the first one failed
C28_Witness ==
  /\ exch[1].outcome = HttpError(500)
  /\ exch[2].st = "sent"
  /\ isRefreshing /\ refreshPromise = 2

\* C29 (single-flight covers only overlapping refreshes): a 401 that
\* arrives for a not-yet-resubmitted call while no refresh is in flight
\* starts a new exchange call, also when the call had been sent with a token
\* a completed refresh has since replaced; calls sent with the same token
\* whose 401s arrive one after another, each after the previous refresh has
\* completed, cause one exchange call each.
C29_SequentialRefreshes ==
  [][\A c \in Calls :
       (RespondError(c, R401) /\ BothTokens /\ ~calls[c].retry /\ ~isRefreshing) =>
          /\ nExch' = nExch + 1
          /\ exch'[nExch + 1].st = "sent"
          /\ isRefreshing'
          /\ calls'[c].st = "wait" /\ calls'[c].promise = nExch + 1]_vars

\* two calls sent with the token of the login; the 401 of the second one
\* arrived after the refresh of the first had completed, and started a
\* second exchange call
C29_Witness ==
  /\ nExch = 2
  /\ calls[1].promise = 1 /\ exch[1].outcome = Ok
  /\ calls[2].st = "wait" /\ calls[2].promise = 2 /\ calls[2].auth = 1
  /\ exch[2].auth = 2

\* C30 (refresh frame): a failed refresh leaves the OAuth2 token held as it
\* was; no refresh modifies the OAuth1 token, which after any number of
\* refreshes is the one obtained at login.
C30_RefreshFrame ==
  /\ [][\A k \in ExchIds, r \in ErrorResponses :
          ExchangeRespondError(k, r) => oauth2Token' = oauth2Token]_vars
  /\ [][pc = "ready" => oauth1Token' = oauth1Token]_vars
  /\ [](nExch >= 1 => oauth1Token = LoginOAuth1)
  /\ [](\A k \in ExchIds :
          (exch[k].st = "done" /\ exch[k].outcome # Ok /\
             \A j \in ExchIds : j > k => exch[j].outcome # Ok) =>
             oauth2Token.access_token = exch[k].held)

\* a refresh succeeded and the next one failed: the token of the first
\* refresh is still held
C30_Witness ==
  /\ exch[1].outcome = Ok
  /\ exch[2].st = "done" /\ exch[2].outcome = HttpError(500)
  /\ oauth2Token.access_token = 2
  /\ oauth1Token = LoginOAuth1
====
